---- MODULE Spec2Model ----
(***************************************************************************)
(* Model of rug-binserial (src/src/lib.rs): a newtype around rug::Integer  *)
(* whose serde Serialize impl writes the base-256 digits of the wrapped    *)
(* integer (least-significant first) as a serde sequence, and whose        *)
(* Deserialize impl reads a sequence of u8 elements until exhaustion and   *)
(* rebuilds the integer from them.                                         *)
(*                                                                         *)
(* The serializer's sink (Serializer / SerializeSeq) and the deserializer's*)
(* source (Deserializer / SeqAccess) are the environment: each call on     *)
(* them either succeeds or returns one of their errors.                    *)
(***************************************************************************)
EXTENDS Integers, Sequences, FiniteSets

VARIABLES
  pc,          \* position of the single-threaded caller
  origin,      \* "none" | "wrapped" (From<rug::Integer>) | "decoded"
  value,       \* self.0 : the wrapped rug::Integer
  ser_digits,  \* serialize: `digits` (line 73)
  iter,        \* serialize: number of elements digits.iter() has yielded
  sinkLog,     \* calls made on the sink so far, in order
  sinkErr,     \* error the sink returned ("none" if it has not failed)
  serResult,   \* what serialize returned
  srcElems,    \* elements the source holds
  srcHint,     \* what the source reports from size_hint(): <<>> or <<h>>
  srcPos,      \* elements the source has handed out
  srcCalls,    \* number of next_element calls made on the source
  srcErr,      \* error the source returned ("none" if it has not failed)
  de_digits,   \* visit_seq: `digits` (line 24)
  cap,         \* visit_seq: capacity of `digits`
  nImport,     \* number of rug::Integer::from_digits calls in this decode
  deResult,    \* what deserialize returned
  prevResult,  \* what the previous deserialize of the same source returned
  decodes      \* number of deserialize calls on the current element list

vars == <<pc, origin, value, ser_digits, iter, sinkLog, sinkErr, serResult,
          srcElems, srcHint, srcPos, srcCalls, srcErr, de_digits, cap,
          nImport, deResult, prevResult, decodes>>

serVars == <<ser_digits, iter, sinkLog, sinkErr, serResult>>
srcVars == <<srcElems, srcHint, srcPos, srcCalls, srcErr>>
deVars  == <<de_digits, cap, nImport, deResult, prevResult, decodes>>

----------------------------------------------------------------------------
(* Bounds *)

MaxBits    == 17   \* largest bit width of a wrapped magnitude
MaxLen     == 3    \* longest element list handed to deserialize directly
MaxDecodes == 2    \* deserialize calls on one element list

(* Program constants *)

Base            == 256   \* u8 digits
DefaultCapacity == 64    \* size_hint().unwrap_or(64)

Digit == 0 .. (Base - 1)

(* u8 elements the source hands out in directly supplied lists *)
SampleDigits == {0, 1, 255}

RECURSIVE SeqsUpTo(_)
SeqsUpTo(n) ==
  IF n = 0 THEN {<<>>}
  ELSE LET shorter == SeqsUpTo(n - 1)
       IN shorter \cup {Append(s, d) : s \in {t \in shorter : Len(t) = n - 1},
                                        d \in SampleDigits}

\* the lists of at most MaxLen sample elements whose value is below 2^31, the
\* largest integer the model checker computes with
SampleSeqs ==
  {s \in SeqsUpTo(MaxLen) : Len(s) <= 3 \/ (Len(s) = 4 /\ s[4] < 128)}

(* size_hint() may be absent, below, equal to or above the real length *)
Hints == {<<>>} \cup {<<h>> : h \in 0 .. (MaxLen + 1)}

(* magnitudes at the edges of every bit width 0..MaxBits, both signs *)
NonNegValues == {0} \cup UNION {{2^(w - 1), 2^w - 1} : w \in 1 .. MaxBits}
Values       == NonNegValues \cup {0 - v : v \in NonNegValues}

SinkErrors == {"sink_io", "sink_custom"}
SrcErrors  == {"invalid_type", "unexpected_eof"}

NoResult == [tag |-> "None", val |-> 0, out |-> <<>>, err |-> "none"]
OkVal(v) == [tag |-> "Ok",   val |-> v, out |-> <<>>, err |-> "none"]
OkOut(w) == [tag |-> "Ok",   val |-> 0, out |-> w,    err |-> "none"]
Err(e)   == [tag |-> "Err",  val |-> 0, out |-> <<>>, err |-> e]

----------------------------------------------------------------------------
(* rug::Integer digit conversion, as called with Order::Lsf and T = u8 *)

Abs(v) == IF v < 0 THEN 0 - v ELSE v

RECURSIVE SignificantDigits(_)
SignificantDigits(m) ==
  IF m = 0 THEN 0 ELSE 1 + SignificantDigits(m \div Base)

\* to_digits with the digits in most-significant-first order
to_digits_Msf(v) ==
  LET m == Abs(v)
      n == SignificantDigits(m)
  IN  [i \in 1 .. n |-> (m \div (Base ^ (n - i))) % Base]

\* to_digits writing a single zero digit for the value 0
to_digits_ZeroDigit(v) ==
  LET m == Abs(v)
      n == SignificantDigits(m)
  IN  IF m = 0 THEN <<0>>
      ELSE [i \in 1 .. n |-> (m \div (Base ^ (i - 1))) % Base]

\* to_digits: the magnitude of v (the sign is ignored), significant_digits
\* long, least-significant digit first
to_digits(v) ==
  LET m == Abs(v)
      n == SignificantDigits(m)
  IN  [i \in 1 .. n |-> (m \div (Base ^ (i - 1))) % Base]

\* from_digits accumulating into a 16-bit word
RECURSIVE from_digits_u16(_)
from_digits_u16(s) ==
  IF s = <<>> THEN 0
  ELSE (Head(s) + Base * from_digits_u16(Tail(s))) % (2 ^ 16)

\* from_digits reading the first digit as the most significant
RECURSIVE from_digits_Msf(_)
from_digits_Msf(s) ==
  IF s = <<>> THEN 0
  ELSE s[Len(s)] + Base * from_digits_Msf(SubSeq(s, 1, Len(s) - 1))

\* from_digits: non-negative integer imported from the digits, first digit
\* least significant
RECURSIVE from_digits(_)
from_digits(s) ==
  IF s = <<>> THEN 0 ELSE Head(s) + Base * from_digits(Tail(s))

\* capacities a Vec<u8> of capacity c and length len may have after one push:
\* unchanged while there is room, otherwise grown to hold at least len + 1
PushCaps(c, len) ==
  IF len < c THEN {c} ELSE {len + 1, 2 * (len + 1)}

\* Option::unwrap_or
UnwrapOr(opt, d) == IF opt = <<>> THEN d ELSE opt[1]

----------------------------------------------------------------------------
(* Sink calls *)

SeqCall(n)  == [call |-> "serialize_seq",     arg |-> <<n>>]
ElemCall(d) == [call |-> "serialize_element", arg |-> <<d>>]
EndCall     == [call |-> "end",               arg |-> <<>>]

\* what a faithful sink has emitted: the elements written, in order
RECURSIVE Written(_)
Written(log) ==
  IF log = <<>> THEN <<>>
  ELSE IF Head(log).call = "serialize_element"
       THEN <<Head(log).arg[1]>> \o Written(Tail(log))
       ELSE Written(Tail(log))

----------------------------------------------------------------------------
Init ==
  /\ pc = "idle"
  /\ origin = "none"
  /\ value = 0
  /\ ser_digits = <<>>
  /\ iter = 0
  /\ sinkLog = <<>>
  /\ sinkErr = "none"
  /\ serResult = NoResult
  /\ srcElems = <<>>
  /\ srcHint = <<>>
  /\ srcPos = 0
  /\ srcCalls = 0
  /\ srcErr = "none"
  /\ de_digits = <<>>
  /\ cap = 0
  /\ nImport = 0
  /\ deResult = NoResult
  /\ prevResult = NoResult
  /\ decodes = 0

\* impl From<rug::Integer> for Integer
From ==
  /\ pc = "idle"
  /\ \E v \in Values : value' = v
  /\ origin' = "wrapped"
  /\ pc' = "ready"
  /\ UNCHANGED <<serVars, srcVars, deVars>>

\* serialize, line 73: let digits = self.0.to_digits(Lsf)
SerializeToDigits ==
  /\ pc = "ready"
  /\ ser_digits' = to_digits(value)
  /\ iter' = 0
  /\ sinkLog' = <<>>
  /\ sinkErr' = "none"
  /\ serResult' = NoResult
  /\ pc' = "ser_begin"
  /\ UNCHANGED <<origin, value, srcVars, deVars>>

\* serialize_seq called without the length: serializer.serialize_seq(None)
SerializeSeq_NoLen ==
  /\ pc = "ser_begin"
  /\ sinkLog' = Append(sinkLog, [call |-> "serialize_seq", arg |-> <<>>])
  /\ \/ /\ sinkErr' = "none"
        /\ serResult' = serResult
        /\ pc' = "ser_elem"
     \/ \E e \in SinkErrors :
          /\ sinkErr' = e
          /\ serResult' = Err(e)
          /\ pc' = "ser_done"
  /\ UNCHANGED <<origin, value, ser_digits, iter, srcVars, deVars>>

\* serialize, line 74: serializer.serialize_seq(Some(digits.len()))?
SerializeSeq ==
  /\ pc = "ser_begin"
  /\ sinkLog' = Append(sinkLog, SeqCall(Len(ser_digits)))
  /\ \/ /\ sinkErr' = "none"
        /\ serResult' = serResult
        /\ pc' = "ser_elem"
     \/ \E e \in SinkErrors :
          /\ sinkErr' = e
          /\ serResult' = Err(e)
          /\ pc' = "ser_done"
  /\ UNCHANGED <<origin, value, ser_digits, iter, srcVars, deVars>>

\* the element loop discarding the sink's result: let _ = seq.serialize_element(e)
SerializeElement_IgnoreErr ==
  /\ pc = "ser_elem"
  /\ iter < Len(ser_digits)
  /\ iter' = iter + 1
  /\ sinkLog' = Append(sinkLog, ElemCall(ser_digits[iter + 1]))
  /\ \/ sinkErr' = "none"
     \/ \E e \in SinkErrors : sinkErr' = e
  /\ serResult' = serResult
  /\ pc' = "ser_elem"
  /\ UNCHANGED <<origin, value, ser_digits, srcVars, deVars>>

\* serialize, lines 75-77: for e in digits.iter() { seq.serialize_element(e)? }
SerializeElement ==
  /\ pc = "ser_elem"
  /\ iter < Len(ser_digits)
  /\ iter' = iter + 1
  /\ sinkLog' = Append(sinkLog, ElemCall(ser_digits[iter + 1]))
  /\ \/ /\ sinkErr' = "none"
        /\ serResult' = serResult
        /\ pc' = "ser_elem"
     \/ \E e \in SinkErrors :
          /\ sinkErr' = e
          /\ serResult' = Err(e)
          /\ pc' = "ser_done"
  /\ UNCHANGED <<origin, value, ser_digits, srcVars, deVars>>

\* serialize, line 78: seq.end()
SerializeEnd ==
  /\ pc = "ser_elem"
  /\ iter = Len(ser_digits)
  /\ sinkLog' = Append(sinkLog, EndCall)
  /\ \/ /\ sinkErr' = "none"
        /\ serResult' = OkOut(Written(sinkLog))
     \/ \E e \in SinkErrors :
          /\ sinkErr' = e
          /\ serResult' = Err(e)
  /\ pc' = "ser_done"
  /\ UNCHANGED <<origin, value, ser_digits, iter, srcVars, deVars>>

\* the source a deserializer builds over element list s with hint h, and the
\* call deserializer.deserialize_seq(IVisitor()) on it (lines 36-41)
StartDecode(s, h) ==
  /\ srcElems' = s
  /\ srcHint' = h
  /\ srcPos' = 0
  /\ srcCalls' = 0
  /\ nImport' = 0
  /\ deResult' = NoResult
  /\ \/ /\ srcErr' = "none"
        /\ pc' = "visit_seq"
     \/ \E e \in SrcErrors :
          /\ srcErr' = e
          /\ deResult' = Err(e)
          /\ pc' = "de_done"

\* deserialize on a directly supplied element list
Deserialize ==
  /\ pc = "idle"
  /\ \E s \in SampleSeqs, h \in Hints : StartDecode(s, h)
  /\ prevResult' = NoResult
  /\ decodes' = 1
  /\ UNCHANGED <<origin, value, serVars, de_digits, cap>>

\* deserialize on what a faithful reader delivers of the serialized output
DeserializeWire ==
  /\ pc = "ser_done"
  /\ serResult.tag = "Ok"
  /\ \E h \in Hints : StartDecode(serResult.out, h)
  /\ prevResult' = NoResult
  /\ decodes' = 1
  /\ UNCHANGED <<origin, value, serVars, de_digits, cap>>

\* a second, independent deserialize of the same element list
DeserializeAgain ==
  /\ pc = "de_done"
  /\ decodes < MaxDecodes
  /\ \E h \in Hints : StartDecode(srcElems, h)
  /\ prevResult' = deResult
  /\ decodes' = decodes + 1
  /\ UNCHANGED <<origin, value, serVars, de_digits, cap>>

\* visit_seq reusing a buffer that is not emptied between calls
VisitSeqAlloc_NoClear ==
  /\ pc = "visit_seq"
  /\ de_digits' = de_digits
  /\ cap' = UnwrapOr(srcHint, DefaultCapacity)
  /\ pc' = "de_loop"
  /\ UNCHANGED <<origin, value, serVars, srcVars, nImport, deResult,
                 prevResult, decodes>>

\* visit_seq, line 24: Vec::with_capacity(seq.size_hint().unwrap_or(64))
VisitSeqAlloc ==
  /\ pc = "visit_seq"
  /\ de_digits' = <<>>
  /\ cap' = UnwrapOr(srcHint, DefaultCapacity)
  /\ pc' = "de_loop"
  /\ UNCHANGED <<origin, value, serVars, srcVars, nImport, deResult,
                 prevResult, decodes>>

\* the loop treating an error as the end of the sequence:
\* while let Ok(Some(digit)) = seq.next_element()
VisitSeqNext_Swallow ==
  /\ pc = "de_loop"
  /\ srcCalls' = srcCalls + 1
  /\ \/ \E e \in SrcErrors :
          /\ srcErr' = e
          /\ pc' = "de_build"
          /\ UNCHANGED <<srcPos, de_digits, cap, deResult>>
     \/ /\ srcPos < Len(srcElems)
        /\ srcPos' = srcPos + 1
        /\ de_digits' = Append(de_digits, srcElems[srcPos + 1])
        /\ cap' \in PushCaps(cap, Len(de_digits))
        /\ UNCHANGED <<srcErr, deResult, pc>>
     \/ /\ srcPos = Len(srcElems)
        /\ pc' = "de_build"
        /\ UNCHANGED <<srcPos, srcErr, de_digits, cap, deResult>>
  /\ UNCHANGED <<origin, value, serVars, srcElems, srcHint, nImport,
                 prevResult, decodes>>

\* the loop trusting the hint: it stops once size_hint() elements are read
VisitSeqNext_HintCap ==
  /\ pc = "de_loop"
  /\ IF srcHint # <<>> /\ Len(de_digits) >= srcHint[1]
       THEN /\ pc' = "de_build"
            /\ UNCHANGED <<srcCalls, srcPos, srcErr, de_digits, cap, deResult>>
       ELSE /\ srcCalls' = srcCalls + 1
            /\ \/ \E e \in SrcErrors :
                    /\ srcErr' = e
                    /\ deResult' = Err(e)
                    /\ pc' = "de_done"
                    /\ UNCHANGED <<srcPos, de_digits, cap>>
               \/ /\ srcPos < Len(srcElems)
                  /\ srcPos' = srcPos + 1
                  /\ de_digits' = Append(de_digits, srcElems[srcPos + 1])
                  /\ cap' \in PushCaps(cap, Len(de_digits))
                  /\ UNCHANGED <<srcErr, deResult, pc>>
               \/ /\ srcPos = Len(srcElems)
                  /\ pc' = "de_build"
                  /\ UNCHANGED <<srcPos, srcErr, de_digits, cap, deResult>>
  /\ UNCHANGED <<origin, value, serVars, srcElems, srcHint, nImport,
                 prevResult, decodes>>

\* visit_seq, lines 25-27: while let Some(digit) = seq.next_element()? {push}
VisitSeqNext ==
  /\ pc = "de_loop"
  /\ srcCalls' = srcCalls + 1
  /\ \/ \E e \in SrcErrors :                      \* Err(e): `?` returns it
          /\ srcErr' = e
          /\ deResult' = Err(e)
          /\ pc' = "de_done"
          /\ UNCHANGED <<srcPos, de_digits, cap>>
     \/ /\ srcPos < Len(srcElems)                 \* Ok(Some(digit))
        /\ srcPos' = srcPos + 1
        /\ de_digits' = Append(de_digits, srcElems[srcPos + 1])
        /\ cap' \in PushCaps(cap, Len(de_digits))
        /\ UNCHANGED <<srcErr, deResult, pc>>
     \/ /\ srcPos = Len(srcElems)                 \* Ok(None)
        /\ pc' = "de_build"
        /\ UNCHANGED <<srcPos, srcErr, de_digits, cap, deResult>>
  /\ UNCHANGED <<origin, value, serVars, srcElems, srcHint, nImport,
                 prevResult, decodes>>

\* visit_seq, lines 28-31: Ok(Integer(from_digits(&digits[..], Lsf)))
VisitSeqBuild ==
  /\ pc = "de_build"
  /\ nImport' = nImport + 1
  /\ deResult' = OkVal(from_digits(de_digits))
  /\ pc' = "de_done"
  /\ UNCHANGED <<origin, value, serVars, srcVars, de_digits, cap,
                 prevResult, decodes>>

\* the caller keeps the decoded wrapper (let number_new = ...unwrap())
TakeDecoded ==
  /\ pc = "de_done"
  /\ deResult.tag = "Ok"
  /\ value' = deResult.val
  /\ origin' = "decoded"
  /\ pc' = "ready"
  /\ UNCHANGED <<serVars, srcVars, deVars>>

Next ==
  \/ From
  \/ SerializeToDigits
  \/ SerializeSeq
  \/ SerializeElement
  \/ SerializeEnd
  \/ Deserialize
  \/ DeserializeWire
  \/ DeserializeAgain
  \/ VisitSeqAlloc
  \/ VisitSeqNext
  \/ VisitSeqBuild
  \/ TakeDecoded

Spec == Init /\ [][Next]_vars

TypeOK ==
  /\ pc \in {"idle", "ready", "ser_begin", "ser_elem", "ser_done",
             "visit_seq", "de_loop", "de_build", "de_done"}
  /\ origin \in {"none", "wrapped", "decoded"}
  /\ value \in Int
  /\ \A i \in 1 .. Len(ser_digits) : ser_digits[i] \in Digit
  /\ \A i \in 1 .. Len(de_digits) : de_digits[i] \in Digit
  /\ iter \in 0 .. Len(ser_digits)
  /\ srcPos \in 0 .. Len(srcElems)

----------------------------------------------------------------------------
(* Definitions used to state the properties *)

\* positional value of s: sum of s[i] * 256^(i-1)
RECURSIVE PosValueTo(_, _)
PosValueTo(s, n) ==
  IF n = 0 THEN 0 ELSE s[n] * (256 ^ (n - 1)) + PosValueTo(s, n - 1)

PosValue(s) == PosValueTo(s, Len(s))

\* s without its trailing (high-order) zero elements
RECURSIVE StripTrailingZeros(_)
StripTrailingZeros(s) ==
  IF s = <<>> THEN <<>>
  ELSE IF s[Len(s)] = 0 THEN StripTrailingZeros(SubSeq(s, 1, Len(s) - 1))
       ELSE s

\* the calls the sequence-writer protocol prescribes for digits d
ExpectedCalls(d) ==
  <<SeqCall(Len(d))>> \o [i \in 1 .. Len(d) |-> ElemCall(d[i])] \o <<EndCall>>

Serializing == pc \in {"ser_begin", "ser_elem", "ser_done"}
Decoding    == pc \in {"visit_seq", "de_loop", "de_build", "de_done"}

----------------------------------------------------------------------------
(* C1: round trip. For every non-negative v, deserializing the elements     *)
(* that serialize emitted for wrap(v), delivered in order by a faithful     *)
(* reader that does not fail, returns Ok(wrap(v)).                          *)
C1_RoundTrip ==
  (origin = "wrapped" /\ value >= 0 /\ pc = "de_done" /\ srcErr = "none")
    => /\ deResult = OkVal(value)
       /\ srcElems = serResult.out

C1_Witness ==
  /\ origin = "wrapped"
  /\ value = 2 ^ 16
  /\ pc = "de_done"
  /\ deResult.tag = "Ok"
  /\ Len(srcElems) = 3

(* C2: round trip for every value the wrapper can hold, negative values     *)
(* included: deserializing what serialize emitted for wrap(v) returns       *)
(* Ok(wrap(v)) for every integer v.                                         *)
C2_RoundTripSigned ==
  (origin = "wrapped" /\ pc = "de_done" /\ srcErr = "none")
    => deResult = OkVal(value)

(* C3: export is canonical. For v >= 0 the digits serialize writes have     *)
(* positional value v, each in 0..255, no high-order zero digit, the empty  *)
(* sequence for v = 0, which decodes back to exactly 0.                     *)
C3_ExportCanonical ==
  /\ (Serializing /\ value >= 0)
       => /\ PosValue(ser_digits) = value
          /\ \A i \in 1 .. Len(ser_digits) : ser_digits[i] \in 0 .. 255
          /\ Len(ser_digits) > 0 => ser_digits[Len(ser_digits)] # 0
          /\ value = 0 => ser_digits = <<>>
  /\ (pc = "ser_done" /\ value >= 0 /\ sinkErr = "none")
       => Written(sinkLog) = ser_digits
  /\ (origin = "wrapped" /\ value = 0 /\ pc = "de_done" /\ srcErr = "none")
       => (srcElems = <<>> /\ deResult = OkVal(0))

C3_Witness ==
  /\ pc = "ser_done"
  /\ sinkErr = "none"
  /\ value = 2 ^ 8
  /\ ser_digits = <<0, 1>>

(* C4: import is the positional value of the whole buffer. A deserialize    *)
(* that returns Ok returns the sum of s[i] * 256^i over every element the   *)
(* source delivered: 0 for the empty list, a value in 0..255 for one        *)
(* element, nothing dropped or truncated for longer lists.                  *)
C4_ImportPositional ==
  (pc = "de_done" /\ deResult.tag = "Ok")
    => /\ de_digits = srcElems
       /\ deResult.val = PosValue(srcElems)
       /\ srcElems = <<>> => deResult.val = 0
       /\ Len(srcElems) = 1 => deResult.val \in 0 .. 255

C4_Witness ==
  /\ pc = "de_done"
  /\ deResult.tag = "Ok"
  /\ srcElems = <<255, 255, 255>>
  /\ deResult.val = 2 ^ 24 - 1

(* C5: a decode failure is surfaced and never yields a partial value. Once  *)
(* the source has returned an error, deserialize has returned exactly that  *)
(* error, has built no Integer from the elements accumulated so far, and    *)
(* makes no further call on the source.                                     *)
C5_DecodeFailure ==
  /\ [](srcErr # "none"
          => (pc = "de_done" /\ deResult = Err(srcErr) /\ nImport = 0))
  /\ [][(srcErr # "none" /\ decodes' = decodes)
          => (srcCalls' = srcCalls /\ deResult' = deResult
                /\ nImport' = nImport)]_vars

C5_Witness ==
  /\ pc = "de_done"
  /\ srcErr # "none"
  /\ Len(de_digits) = 2
  /\ srcCalls = 3
  /\ deResult.tag = "Err"

C7_EqualityStable ==
  (pc = "de_done" /\ decodes >= 2 /\ deResult.tag = "Ok"
     /\ prevResult.tag = "Ok")
    => /\ deResult = prevResult
       /\ (origin = "wrapped" /\ value >= 0) => deResult.val = value

C7_Witness ==
  /\ pc = "de_done"
  /\ decodes = 2
  /\ deResult.tag = "Ok"
  /\ prevResult.tag = "Ok"
  /\ origin = "wrapped"
  /\ value = 255
  /\ srcElems = <<255>>

(* C8: serialize follows the sequence-writer protocol. The calls made on    *)
(* the sink are always a prefix of: one serialize_seq(Some(n)) with n the   *)
(* digit count, the n digits as serialize_element calls in order, one end;  *)
(* on a sink that does not fail all of them are made and serialize returns  *)
(* what end returned. Serializing does not modify the wrapped value.        *)
C8_WriterProtocol ==
  /\ [](Serializing
          => /\ Len(sinkLog) <= Len(ExpectedCalls(ser_digits))
             /\ sinkLog = SubSeq(ExpectedCalls(ser_digits), 1, Len(sinkLog)))
  /\ []((pc = "ser_done" /\ sinkErr = "none")
          => /\ sinkLog = ExpectedCalls(ser_digits)
             /\ serResult = OkOut(ser_digits))
  /\ [][(pc \in {"ready", "ser_begin", "ser_elem"}) => (value' = value)]_vars

C8_Witness ==
  /\ pc = "ser_done"
  /\ sinkErr = "none"
  /\ Len(ser_digits) = 3
  /\ Len(sinkLog) = 5
  /\ sinkLog[1] = SeqCall(3)
  /\ sinkLog[5] = EndCall

(* C9: encode error propagation. Once the sink has failed (at               *)
(* serialize_seq, at an element or at end) serialize has returned exactly   *)
(* that error and no further call is made on the sink; on a sink that does  *)
(* not fail serialize returns Ok.                                           *)
C9_EncodeErrors ==
  /\ [](sinkErr # "none" => (pc = "ser_done" /\ serResult = Err(sinkErr)))
  /\ []((pc = "ser_done" /\ sinkErr = "none") => serResult.tag = "Ok")
  /\ [][sinkErr # "none" => (sinkLog' = sinkLog)]_vars

C9_Witness ==
  /\ pc = "ser_done"
  /\ sinkErr = "sink_io"
  /\ serResult = Err("sink_io")
  /\ Len(ser_digits) = 3
  /\ Len(sinkLog) = 3
  /\ sinkLog[3].call = "serialize_element"

(* C10: decode accepts non-canonical input and re-encoding canonicalizes    *)
(* it. Every element list decodes (when the source does not fail) to the    *)
(* value of the list without its trailing zero digits, and serializing the  *)
(* decoded wrapper emits the list without its trailing zero digits: the     *)
(* same list exactly when it is empty or ends in a non-zero digit.          *)
C10_Canonicalize ==
  /\ (pc = "de_done" /\ srcErr = "none")
       => deResult = OkVal(PosValue(StripTrailingZeros(srcElems)))
  /\ (origin = "decoded" /\ pc = "ser_done" /\ sinkErr = "none")
       => /\ serResult.out = StripTrailingZeros(srcElems)
          /\ (serResult.out = srcElems)
               <=> (srcElems = <<>> \/ srcElems[Len(srcElems)] # 0)

C10_Witness ==
  /\ origin = "decoded"
  /\ pc = "ser_done"
  /\ sinkErr = "none"
  /\ srcElems = <<1, 0, 0>>
  /\ value = 1
  /\ serResult.out = <<1>>
====
